---- MODULE Spec2Model ----
(***************************************************************************)
(* A model of the Ultrahuman Home Assistant integration: the coordinator's *)
(* refresh cycle (_async_update_data: status dispatch, metric extraction   *)
(* and flattening), the sensor platform (static descriptions, the name     *)
(* inferencer, the recursive sensor factory) and the config entry's        *)
(* lifecycle.                                                              *)
(*                                                                         *)
(* Python values are tagged records, one field set per type, so that any   *)
(* two values can be compared:                                             *)
(*   None  [t |-> "null"]            int   [t |-> "int", n |-> 5]          *)
(*   float [t |-> "float", num, den] (an exact fraction in lowest terms)   *)
(*   str   [t |-> "str", s |-> "x"]  list  [t |-> "list", items |-> <<>>]  *)
(*   dict  [t |-> "dict", pairs |-> << <<key, value>>, ... >>]             *)
(* A dict keeps its pairs in insertion order with unique keys, as Python   *)
(* does.  Python strings are TLA+ strings.  Floats are exact fractions:    *)
(* binary rounding is not modelled.  JSON booleans are left out.           *)
(***************************************************************************)
EXTENDS Integers, Sequences, FiniteSets, TLC

VARIABLES
    \* ---- the config entry and its coordinator
    entry_state,    \* "not_loaded", "setup_in_progress", "loaded", "failed_unload"
    pc,             \* "idle", or the refresh whose request is outstanding
    session,        \* coordinator._session: "None" or "open"
    open_sessions,  \* ClientSession objects created and not closed
    data,           \* coordinator.data: None, or the current mapping
    last_update_success,
    now,            \* the wall clock's day
    request,        \* the `date` parameter of the outstanding request
    first_data,     \* the mapping of the first successful refresh of the load
    setup_data,     \* `data` of sensor.async_setup_entry (line 361), or None
    added_entities, \* the descriptions handed to async_add_entities (line 385)
    \* ---- a function of the program applied to one input
    args,           \* the arguments of the call
    returned        \* NotCalled, then what the call returned or raised

entry_vars == <<entry_state, pc, session, open_sessions, data, last_update_success,
                now, request, first_data, setup_data, added_entities>>
call_vars == <<args, returned>>
vars == <<entry_vars, call_vars>>

----------------------------------------------------------------------------
(* Python values                                                           *)

None == [t |-> "null"]
PyInt(n) == [t |-> "int", n |-> n]
PyStr(s) == [t |-> "str", s |-> s]
PyList(items) == [t |-> "list", items |-> items]
PyDict(pairs) == [t |-> "dict", pairs |-> pairs]

RECURSIVE Gcd(_, _)
Gcd(a, b) == IF b = 0 THEN a ELSE Gcd(b, a % b)

Abs(a) == IF a < 0 THEN -a ELSE a

\* A float with value a / b (b > 0), in lowest terms.
PyFloat(a, b) ==
    LET g == Gcd(Abs(a), b)
    IN  [t |-> "float", num |-> a \div g, den |-> b \div g]

IsDict(v) == v.t = "dict"
IsList(v) == v.t = "list"
IsStr(v) == v.t = "str"
IsNumber(v) == v.t \in {"int", "float"}

\* The fraction <<numerator, denominator>> an int or a float stands for.
Num(v) == IF v.t = "int" THEN v.n ELSE v.num
Den(v) == IF v.t = "int" THEN 1 ELSE v.den
Less(v, w) == Num(v) * Den(w) < Num(w) * Den(v)

\* v / k for a number v and a positive int k: Python's true division.
TrueDiv(v, k) == PyFloat(Num(v), Den(v) * k)

\* An evaluation either yields a value or raises.
Ok(v) == [raised |-> FALSE, value |-> v]
Raise(e) == [raised |-> TRUE, exc |-> e]

\* Python's substring test on str.
Substring(sub, s) ==
    \E i \in 1..(Len(s) - Len(sub) + 1) : SubSeq(s, i, i + Len(sub) - 1) = sub

\* key in d, for a dict d.
HasKey(d, key) == \E i \in 1..Len(d.pairs) : d.pairs[i][1] = key

\* d[key], for a dict d that has the key.
Item(d, key) ==
    LET i == CHOOSE j \in 1..Len(d.pairs) : d.pairs[j][1] = key
    IN  d.pairs[i][2]

\* d.get(key, default), for a dict d.
DictGet(d, key, default) == IF HasKey(d, key) THEN Item(d, key) ELSE default

\* d[key] = value: an existing key keeps its place, a new one goes last.
SetItem(d, key, value) ==
    IF HasKey(d, key)
    THEN PyDict([i \in 1..Len(d.pairs) |->
                   IF d.pairs[i][1] = key THEN <<key, value>> ELSE d.pairs[i]])
    ELSE PyDict(Append(d.pairs, <<key, value>>))

\* `key in c` for a str key and any value c: membership in a dict's keys, in
\* a list's elements, substring of a str; None and numbers are not iterable.
InRaises(c) == c.t \in {"null", "int", "float"}
In(key, c) ==
    CASE c.t = "dict" -> HasKey(c, key)
      [] c.t = "list" -> \E i \in 1..Len(c.items) : c.items[i] = PyStr(key)
      [] c.t = "str"  -> Substring(key, c.s)
      [] OTHER        -> FALSE

\* `for x in c`: the elements visited.  A dict yields its keys and a str its
\* characters; None and numbers raise TypeError (IterRaises).
IterRaises(c) == c.t \in {"null", "int", "float"}
Iter(c) ==
    CASE c.t = "list" -> c.items
      [] c.t = "dict" -> [i \in 1..Len(c.pairs) |-> PyStr(c.pairs[i][1])]
      [] c.t = "str"  -> [i \in 1..Len(c.s) |-> PyStr(SubSeq(c.s, i, i))]
      [] OTHER        -> <<>>

----------------------------------------------------------------------------
(* coordinator.py: the extraction of _async_update_data, lines 67-196.     *)
(* Every operator threads the mapping built so far (flattened) and yields  *)
(* Ok(mapping) or Raise(exception name).                                   *)

\* sum(values) for a list of numbers: an int while every element is an int.
RECURSIVE SumValues(_)
SumValues(values) ==
    IF values = <<>> THEN PyInt(0)
    ELSE LET rest == SumValues(Tail(values))
             v == Head(values)
         IN  IF v.t = "int" /\ rest.t = "int" THEN PyInt(v.n + rest.n)
             ELSE PyFloat(Num(v) * Den(rest) + Num(rest) * Den(v),
                          Den(v) * Den(rest))

\* min(values) and max(values): the first of the smallest (largest) elements.
MinValue(values) ==
    LET smallest(i) == \A j \in 1..Len(values) : ~Less(values[j], values[i])
        i == CHOOSE k \in 1..Len(values) :
                 smallest(k) /\ \A j \in 1..(k - 1) : ~smallest(j)
    IN  values[i]

\* A slip: the element that comes last, not the largest.
MaxValueLast(values) == values[Len(values)]

MaxValue(values) ==
    LET largest(i) == \A j \in 1..Len(values) : ~Less(values[i], values[j])
        i == CHOOSE k \in 1..Len(values) :
                 largest(k) /\ \A j \in 1..(k - 1) : ~largest(j)
    IN  values[i]

\* [v.get("value") for v in metric_obj["values"] if "value" in v]  (line 85)
RECURSIVE HrValues(_)
HrValues(items) ==
    IF items = <<>> THEN Ok(<<>>)
    ELSE LET v == Head(items)
             rest == HrValues(Tail(items))
         IN  IF InRaises(v) THEN Raise("TypeError")
             ELSE IF ~In("value", v) THEN rest
             ELSE IF ~IsDict(v) THEN Raise("AttributeError")
             ELSE IF rest.raised THEN rest
             ELSE Ok(<<Item(v, "value")>> \o rest.value)

\* metric_type == "hr"  (lines 82-89)
HrRule(flattened, metric_obj) ==
    IF InRaises(metric_obj) THEN Raise("TypeError")
    ELSE IF ~In("values", metric_obj) THEN Ok(flattened)
    ELSE IF ~IsDict(metric_obj) THEN Raise("TypeError")
    ELSE IF ~IsList(Item(metric_obj, "values")) THEN Ok(flattened)
    ELSE LET got == HrValues(Item(metric_obj, "values").items)
         IN  IF got.raised THEN got
             ELSE IF got.value = <<>> THEN Ok(flattened)
             ELSE IF \E i \in 1..Len(got.value) : ~IsNumber(got.value[i])
                  THEN Raise("TypeError")
             ELSE LET values == got.value
                      avg == TrueDiv(SumValues(values), Len(values))
                      f1 == SetItem(flattened, "heart_rate_avg", avg)
                      f2 == SetItem(f1, "heart_rate_min", MinValue(values))
                  IN  Ok(SetItem(f2, "heart_rate_max", MaxValue(values)))

\* metric_type == "night_rhr"  (lines 91-99)
NightRhrRule(flattened, metric_obj) ==
    IF InRaises(metric_obj) THEN Raise("TypeError")
    ELSE IF In("avg", metric_obj)
    THEN IF IsDict(metric_obj)
         THEN Ok(SetItem(flattened, "heart_rate_resting", Item(metric_obj, "avg")))
         ELSE Raise("TypeError")
    ELSE IF ~In("values", metric_obj) THEN Ok(flattened)
    ELSE IF ~IsDict(metric_obj) THEN Raise("TypeError")
    ELSE IF ~IsList(Item(metric_obj, "values")) THEN Ok(flattened)
    ELSE LET values == Item(metric_obj, "values").items
             latest == IF values # <<>> THEN values[Len(values)] ELSE PyDict(<<>>)
         IN  IF InRaises(latest) THEN Raise("TypeError")
             ELSE IF ~In("value", latest) THEN Ok(flattened)
             ELSE IF ~IsDict(latest) THEN Raise("TypeError")
             ELSE Ok(SetItem(flattened, "heart_rate_resting", Item(latest, "value")))

\* if "value" in metric_obj: flattened[key] = metric_obj["value"]
\* (avg_sleep_hrv, steps, recovery_index, metabolic_score, body_temperature,
\* vo2_max, and the first statement of motion and activity_index)
ValueRule(flattened, metric_obj, key) ==
    IF InRaises(metric_obj) THEN Raise("TypeError")
    ELSE IF ~In("value", metric_obj) THEN Ok(flattened)
    ELSE IF ~IsDict(metric_obj) THEN Raise("TypeError")
    ELSE Ok(SetItem(flattened, key, Item(metric_obj, "value")))

\* metric_type == "active_minutes"  (lines 126-131)
ActiveMinutesRule(flattened, metric_obj) ==
    IF InRaises(metric_obj) THEN Raise("TypeError")
    ELSE IF ~In("value", metric_obj) THEN Ok(flattened)
    ELSE IF ~IsDict(metric_obj) THEN Raise("TypeError")
    ELSE LET value == Item(metric_obj, "value")
         IN  IF ~IsNumber(value) THEN Raise("TypeError")
             ELSE Ok(SetItem(SetItem(flattened, "activity_minutes", value),
                             "activity_hours", TrueDiv(value, 60)))

\* A slip: the seconds kept as they are.
ToMinutesForgotten(value) == value

\* Seconds to minutes: qm["value"] / 60  (lines 115 and 119).
ToMinutes(value) == TrueDiv(value, 60)

\* The body of a quick-metrics loop for one element qm; owner is the metric
\* type whose loop it is (sleep 111-119, motion 141-146, activity_index
\* 156-165).
QuickMetric(owner, flattened, qm) ==
    IF ~(IsDict(qm) /\ HasKey(qm, "type")) THEN Ok(flattened)
    ELSE LET qm_type == Item(qm, "type")
             has == HasKey(qm, "value")
             value == Item(qm, "value")
         IN  CASE owner = "sleep" /\ qm_type = PyStr("total_sleep") /\ has ->
                    IF ~IsNumber(value) THEN Raise("TypeError")
                    ELSE Ok(SetItem(flattened, "sleep_duration", ToMinutes(value)))
               [] owner = "sleep" /\ qm_type = PyStr("sleep_index") /\ has ->
                    Ok(SetItem(flattened, "sleep_quality", value))
               [] owner = "sleep" /\ qm_type = PyStr("time_in_bed") /\ has ->
                    IF ~IsNumber(value) THEN Raise("TypeError")
                    ELSE Ok(SetItem(flattened, "time_in_bed", ToMinutes(value)))
               [] owner \in {"motion", "activity_index"}
                  /\ qm_type \in {PyStr("calories"), PyStr("total_calories")} /\ has ->
                    Ok(SetItem(flattened, "total_calories", value))
               [] owner = "activity_index" /\ qm_type = PyStr("active_minutes") /\ has ->
                    IF ~IsNumber(value) THEN Raise("TypeError")
                    ELSE Ok(SetItem(SetItem(flattened, "activity_minutes", value),
                                    "activity_hours", TrueDiv(value, 60)))
               [] OTHER -> Ok(flattened)

\* for qm in metric_obj["quick_metrics"]: ...
RECURSIVE QuickMetricsLoop(_, _, _)
QuickMetricsLoop(owner, flattened, qms) ==
    IF qms = <<>> THEN Ok(flattened)
    ELSE LET r == QuickMetric(owner, flattened, Head(qms))
         IN  IF r.raised THEN r ELSE QuickMetricsLoop(owner, r.value, Tail(qms))

\* if "quick_metrics" in metric_obj: for qm in metric_obj["quick_metrics"]
QuickMetrics(owner, flattened, metric_obj) ==
    IF InRaises(metric_obj) THEN Raise("TypeError")
    ELSE IF ~In("quick_metrics", metric_obj) THEN Ok(flattened)
    ELSE IF ~IsDict(metric_obj) THEN Raise("TypeError")
    ELSE IF IterRaises(Item(metric_obj, "quick_metrics")) THEN Raise("TypeError")
    ELSE QuickMetricsLoop(owner, flattened, Iter(Item(metric_obj, "quick_metrics")))

\* metric_type == "motion" (133-146) and "activity_index" (148-165): the
\* flat value first, then the quick metrics.
ValueThenQuickMetrics(owner, flattened, metric_obj, key) ==
    LET r == ValueRule(flattened, metric_obj, key)
    IN  IF r.raised THEN r ELSE QuickMetrics(owner, r.value, metric_obj)

\* The body of `for metric in today_metrics`  (lines 77-185)
MetricRule(flattened, metric) ==
    IF ~(IsDict(metric) /\ HasKey(metric, "type") /\ HasKey(metric, "object"))
    THEN Ok(flattened)
    ELSE LET metric_type == Item(metric, "type")
             metric_obj == Item(metric, "object")
         IN  CASE metric_type = PyStr("hr") -> HrRule(flattened, metric_obj)
               [] metric_type = PyStr("night_rhr") -> NightRhrRule(flattened, metric_obj)
               [] metric_type = PyStr("avg_sleep_hrv") -> ValueRule(flattened, metric_obj, "hrv")
               [] metric_type = PyStr("sleep") -> QuickMetrics("sleep", flattened, metric_obj)
               [] metric_type = PyStr("steps") -> ValueRule(flattened, metric_obj, "steps")
               [] metric_type = PyStr("active_minutes") -> ActiveMinutesRule(flattened, metric_obj)
               [] metric_type = PyStr("motion") ->
                    ValueThenQuickMetrics("motion", flattened, metric_obj, "movement_index")
               [] metric_type = PyStr("activity_index") ->
                    ValueThenQuickMetrics("activity_index", flattened, metric_obj, "activity_index")
               [] metric_type \in {PyStr("recovery_index"), PyStr("metabolic_score"),
                                   PyStr("body_temperature"), PyStr("vo2_max")} ->
                    ValueRule(flattened, metric_obj, metric_type.s)
               [] OTHER -> Ok(flattened)

\* A slip: the loop left at the first element that is no record, not
\* passed over.
RECURSIVE MetricsLoopLeftAtOdd(_, _)
MetricsLoopLeftAtOdd(flattened, today_metrics) ==
    IF today_metrics = <<>> THEN Ok(flattened)
    ELSE LET metric == Head(today_metrics)
             r == MetricRule(flattened, metric)
         IN  IF ~(IsDict(metric) /\ HasKey(metric, "type") /\ HasKey(metric, "object"))
             THEN Ok(flattened)
             ELSE IF r.raised THEN r
             ELSE MetricsLoopLeftAtOdd(r.value, Tail(today_metrics))

\* for metric in today_metrics  (line 76)
RECURSIVE MetricsLoop(_, _)
MetricsLoop(flattened, today_metrics) ==
    IF today_metrics = <<>> THEN Ok(flattened)
    ELSE LET r == MetricRule(flattened, Head(today_metrics))
         IN  IF r.raised THEN r ELSE MetricsLoop(r.value, Tail(today_metrics))

\* A slip: the keys written into the mapping of the cycle before, not into
\* a new one.
FlattenIntoPrior(raw_data, today) ==
    IF IsDict(raw_data) /\ HasKey(raw_data, "data")
    THEN LET data_field == Item(raw_data, "data")
         IN  IF ~IsDict(data_field) THEN Raise("AttributeError")
             ELSE LET metrics_data == DictGet(data_field, "metrics", PyDict(<<>>))
                  IN  IF ~IsDict(metrics_data) THEN Raise("AttributeError")
                      ELSE LET today_metrics == DictGet(metrics_data, today, PyList(<<>>))
                           IN  IF IterRaises(today_metrics) THEN Raise("TypeError")
                               ELSE MetricsLoop(IF IsDict(data) THEN data ELSE PyDict(<<>>),
                                                Iter(today_metrics))
    ELSE Ok(IF IsDict(raw_data) THEN raw_data ELSE PyDict(<<>>))

\* Lines 67-196: what the body raw_data becomes, looked up under `today`.
Flatten(raw_data, today) ==
    IF IsDict(raw_data) /\ HasKey(raw_data, "data")
    THEN LET data_field == Item(raw_data, "data")
         IN  IF ~IsDict(data_field) THEN Raise("AttributeError")
             ELSE LET metrics_data == DictGet(data_field, "metrics", PyDict(<<>>))
                  IN  IF ~IsDict(metrics_data) THEN Raise("AttributeError")
                      ELSE LET today_metrics == DictGet(metrics_data, today, PyList(<<>>))
                           IN  IF IterRaises(today_metrics) THEN Raise("TypeError")
                               ELSE MetricsLoop(PyDict(<<>>), Iter(today_metrics))
    ELSE Ok(IF IsDict(raw_data) THEN raw_data ELSE PyDict(<<>>))


----------------------------------------------------------------------------
(* coordinator.py: _async_update_data, lines 31-205.  A response is        *)
(*   [kind |-> "timeout" | "client_error" | "http", status, body]          *)
(* where body is what `await response.json()` yields: Ok(value), or        *)
(* Raise("ContentTypeError") for a body that is no JSON.                   *)

\* datetime.now().strftime("%Y-%m-%d") on day d of January 2026 (d < 10).
Strftime(d) == "2026-01-0" \o ToString(d)

AuthFailed(status) == status = 401
Forbidden(status) == status = 403
\* A slip: every status from 404 up taken for "no data".
NotFoundOrAbove(status) == status >= 404

NotFound(status) == status = 404
ServerError(status) == status >= 500

\* Lines 41-196, the body of the try statement.  `today` is the date of the
\* second datetime.now(), line 71, taken once the body has been read.
TryBody(response, today) ==
    CASE response.kind = "timeout" -> Raise("TimeoutError")
      [] response.kind = "client_error" -> Raise("ClientError")
      [] OTHER ->
           IF AuthFailed(response.status) THEN Raise("UpdateFailed")
           ELSE IF Forbidden(response.status) THEN Raise("UpdateFailed")
           ELSE IF NotFound(response.status) THEN Ok(PyDict(<<>>))
           ELSE IF ServerError(response.status) THEN Raise("UpdateFailed")
           ELSE IF response.status >= 400 THEN Raise("ClientResponseError")
           ELSE IF response.body.raised THEN response.body
           ELSE Flatten(response.body.value, today)

\* Lines 197-205.  An exception leaving the try body meets
\* `except aiohttp.ClientTimeout:` first.  ClientTimeout is the timeout
\* settings class, not an exception class, and matching an exception against
\* a class that does not inherit from BaseException raises TypeError, which
\* leaves the try statement: the later clauses, and their UpdateFailed, are
\* never reached.
ExceptClauses(r) == IF r.raised THEN Raise("TypeError") ELSE r

_async_update_data(response, today) == ExceptClauses(TryBody(response, today))

----------------------------------------------------------------------------
(* The inputs of the bounded check of _async_update_data.                  *)

MaxValues == 3      \* longest `values` list of an hr record
MaxQuick == 2       \* longest `quick_metrics` list
MaxDay == 2         \* days 1..MaxDay of the wall clock

Days == 1..MaxDay

SeqsUpTo(S, n) == UNION {[1..k -> S] : k \in 0..n}

Obj(key, v) == PyDict(<< <<key, v>> >>)
Reading(v) == Obj("value", v)
Quick(type, v) == PyDict(<< <<"type", PyStr(type)>>, <<"value", v>> >>)
Record(type, obj) == PyDict(<< <<"type", PyStr(type)>>, <<"object", obj>> >>)

\* Elements of an hr record's `values`.
HrElements ==
    { Reading(PyInt(60)),
      PyDict(<< <<"value", PyInt(70)>>, <<"timestamp", PyInt(1)>> >>),
      Reading(PyInt(80)),
      Reading(PyFloat(121, 2)),
      Obj("timestamp", PyInt(1)),
      Reading(None),
      PyInt(5),
      PyStr("value") }

\* A metric object that is no mapping, or an empty one.
OddObjects ==
    { PyDict(<<>>), None, PyInt(5), PyStr("abc"), PyStr("values quick_metrics avg"),
      PyList(<<>>), PyList(<<PyStr("value"), PyStr("values")>>) }

HrObjects ==
    { Obj("values", PyList(s)) : s \in SeqsUpTo(HrElements, MaxValues) }
    \cup { Obj("values", None), Obj("values", PyStr("abc")),
           Obj("values", Reading(PyInt(60))) }
    \cup OddObjects

NightRhrObjects ==
    { Obj("avg", PyInt(52)), Obj("avg", None),
      PyDict(<< <<"avg", PyInt(52)>>,
                <<"values", PyList(<<Reading(PyInt(50))>>)>> >>),
      Obj("values", PyList(<<Reading(PyInt(50)), Reading(PyInt(54))>>)),
      Obj("values", PyList(<<Reading(PyInt(50)), Obj("timestamp", PyInt(1))>>)),
      Obj("values", PyList(<<>>)),
      Obj("values", PyList(<<PyInt(5)>>)),
      Obj("values", PyList(<<PyStr("value")>>)),
      Obj("values", PyStr("abc")) }
    \cup OddObjects

ValueObjects ==
    { Reading(PyInt(90)), Reading(PyFloat(73, 2)), Reading(None),
      Reading(PyStr("n/a")), Obj("avg", PyInt(1)) }
    \cup OddObjects

ValueTypes ==
    { "avg_sleep_hrv", "steps", "active_minutes", "recovery_index",
      "metabolic_score", "body_temperature", "vo2_max" }

SleepQuickElements ==
    { Quick("total_sleep", PyInt(27000)), Obj("type", PyStr("total_sleep")),
      Quick("sleep_index", PyInt(85)), Quick("time_in_bed", PyInt(28800)),
      Quick("rem_sleep", PyInt(10)), Quick("time_in_bed", None),
      Obj("value", PyInt(1)), PyInt(5) }

SleepObjects ==
    { Obj("quick_metrics", PyList(s)) : s \in SeqsUpTo(SleepQuickElements, MaxQuick) }
    \cup { Obj("quick_metrics", None), Obj("quick_metrics", PyStr("ab")),
           Obj("quick_metrics", Quick("total_sleep", PyInt(60))) }
    \cup OddObjects

ActivityQuickElements ==
    { Quick("calories", PyInt(300)), Quick("total_calories", PyInt(2000)),
      Quick("active_minutes", PyInt(90)), Quick("active_minutes", None),
      Obj("type", PyStr("calories")) }

ActivityObjects ==
    { PyDict(<< <<"value", PyInt(7)>>, <<"quick_metrics", PyList(s)>> >>) :
        s \in SeqsUpTo(ActivityQuickElements, MaxQuick) }
    \cup { Obj("quick_metrics", PyList(s)) : s \in SeqsUpTo(ActivityQuickElements, 1) }
    \cup { Reading(PyInt(7)), Obj("quick_metrics", PyInt(5)) }
    \cup OddObjects

\* Elements of a day's list that the loop passes over (line 77), and records
\* of a type the dispatch does not know.
OddRecords ==
    { None, PyInt(5), PyStr("hr"), PyList(<<>>),
      Obj("type", PyStr("hr")), Obj("object", Reading(PyInt(1))),
      Record("glucose", Reading(PyInt(1))),
      PyDict(<< <<"type", PyInt(5)>>, <<"object", Reading(PyInt(1))>> >>),
      PyDict(<< <<"type", None>>, <<"object", None>> >>) }

Records ==
    { Record("hr", o) : o \in HrObjects }
    \cup { Record("night_rhr", o) : o \in NightRhrObjects }
    \cup { Record(ty, o) : ty \in ValueTypes, o \in ValueObjects }
    \cup { Record("sleep", o) : o \in SleepObjects }
    \cup { Record(ty, o) : ty \in {"motion", "activity_index"}, o \in ActivityObjects }
    \cup OddRecords

\* Well-formed records that stand before and after the record looked at.
Before == { <<>>, <<Record("steps", Reading(PyInt(4000)))>>,
            <<Record("hr", Obj("values", PyList(<<Reading(PyInt(55))>>)))>> }
After == { <<>>, <<Record("steps", Reading(PyInt(5000)))>>,
           <<Record("sleep", Obj("quick_metrics",
                                 PyList(<<Quick("sleep_index", PyInt(70))>>)))>> }

DayLists == { b \o <<r>> \o a : b \in Before, r \in Records, a \in After }

\* The response body the API documents (coordinator.py line 66).
Payload(metrics) ==
    PyDict(<< <<"data", Obj("metrics", metrics)>>, <<"error", None>>,
              <<"status", PyInt(200)>> >>)

SomeDay == PyList(<<Record("steps", Reading(PyInt(4000)))>>)

\* `metrics` with an entry for some of the days, in either order.
DatedMetrics ==
    { PyDict(s) : s \in { q \in SeqsUpTo({<<Strftime(d), SomeDay>> : d \in Days}, MaxDay) :
                            \A i, j \in 1..Len(q) : i # j => q[i][1] # q[j][1] } }

\* Bodies whose top level is not the documented one.
OddPayloads ==
    { None, PyInt(5), PyStr("data"), PyList(<<>>), PyList(<<PyStr("data")>>),
      PyDict(<<>>),
      PyDict(<< <<"error", PyStr("no ring")>>, <<"status", PyInt(200)>> >>),
      Obj("metrics", Obj(Strftime(1), SomeDay)),
      Obj("data", None), Obj("data", PyList(<<>>)), Obj("data", PyStr("metrics")),
      Obj("data", PyDict(<<>>)), Obj("data", Obj("error", None)),
      Payload(None), Payload(PyList(<<>>)), Payload(PyStr("x")),
      Payload(Obj(Strftime(1), None)), Payload(Obj(Strftime(1), PyInt(5))),
      Payload(Obj(Strftime(1), PyStr("hr"))),
      Payload(Obj(Strftime(1), Record("steps", Reading(PyInt(1))))) }

Bodies ==
    { Payload(Obj(Strftime(1), PyList(l))) : l \in DayLists }
    \cup { Payload(m) : m \in DatedMetrics }
    \cup OddPayloads

Statuses == {200, 204, 400, 401, 403, 404, 429, 500, 503}

Http(status, body) == [kind |-> "http", status |-> status, body |-> body]
Failure(kind) == [kind |-> kind, status |-> 0, body |-> Raise("none")]

Responses ==
    { Http(200, Ok(b)) : b \in Bodies }
    \cup { Http(s, Ok(b)) : s \in Statuses,
                            b \in {Payload(Obj(Strftime(1), SomeDay)), PyDict(<<>>)} }
    \cup { Http(s, Raise("ContentTypeError")) : s \in Statuses }
    \cup { Failure("timeout"), Failure("client_error") }

NotCalled == [called |-> FALSE]

\* No config entry: the state of the entry's variables while one function is
\* checked on its own.
NoEntry ==
    /\ entry_state = "not_loaded" /\ pc = "idle"
    /\ session = "None" /\ open_sessions = 0
    /\ data = None /\ last_update_success = TRUE
    /\ now = 1 /\ request = ""
    /\ first_data = None /\ setup_data = None /\ added_entities = <<>>

ExtractInit ==
    /\ NoEntry
    /\ args \in { [response |-> r, today |-> Strftime(d)] : r \in Responses, d \in Days }
    /\ returned = NotCalled

CallUpdate ==
    /\ returned = NotCalled
    /\ returned' = _async_update_data(args.response, args.today)
    /\ UNCHANGED <<args, entry_vars>>

ExtractNext == CallUpdate

ExtractSpec == ExtractInit /\ [][ExtractNext]_vars


----------------------------------------------------------------------------
(* Properties of _async_update_data, checked under ExtractSpec.            *)

Called == returned # NotCalled

\* The call got a 200 response whose body parsed as JSON.
Got200 ==
    /\ args.response.kind = "http"
    /\ args.response.status = 200
    /\ ~args.response.body.raised

raw == args.response.body.value

\* The body has the documented top level and a list under the lookup date.
HasDayList ==
    /\ Got200
    /\ IsDict(raw) /\ HasKey(raw, "data")
    /\ IsDict(Item(raw, "data")) /\ HasKey(Item(raw, "data"), "metrics")
    /\ IsDict(Item(Item(raw, "data"), "metrics"))
    /\ HasKey(Item(Item(raw, "data"), "metrics"), args.today)
    /\ IsList(Item(Item(Item(raw, "data"), "metrics"), args.today))

DayList == Item(Item(Item(raw, "data"), "metrics"), args.today).items

IsRecordOf(metric, type) ==
    /\ IsDict(metric) /\ HasKey(metric, "type") /\ HasKey(metric, "object")
    /\ Item(metric, "type") = PyStr(type)

ContextRecords ==
    {b[1] : b \in Before \ {<<>>}} \cup {a[1] : a \in After \ {<<>>}}

\* C1: for every body of the documented top level, whatever the shape of the
\* records of the day's list, the call returns a mapping and does not raise.
C1_ExtractionNeverRaises ==
    (Called /\ HasDayList) => (~returned.raised /\ IsDict(returned.value))

\* An hr record as the API documents it: `values` is a list of mappings, and
\* a `value` field, where there is one, is a number.
IsHrRecord(metric) ==
    /\ IsRecordOf(metric, "hr")
    /\ IsDict(Item(metric, "object")) /\ HasKey(Item(metric, "object"), "values")
    /\ IsList(Item(Item(metric, "object"), "values"))
    /\ \A i \in 1..Len(Item(Item(metric, "object"), "values").items) :
         LET v == Item(Item(metric, "object"), "values").items[i]
         IN  IsDict(v) /\ (HasKey(v, "value") => IsNumber(Item(v, "value")))

\* The elements of an hr record's `values` that have a `value` field.
WithValue(metric) ==
    SelectSeq(Item(Item(metric, "object"), "values").items,
              LAMBDA v : HasKey(v, "value"))

\* C9: with hr records of the documented shape, nothing is raised, and the
\* three heart-rate keys are written together: from the last hr record that
\* has a `value` field, heart_rate_avg times the number of fields is their
\* sum, and heart_rate_min (heart_rate_max) is one of the fields, with none
\* smaller (larger); with no such record none of the three keys is written.
C9_HeartRateStatistics ==
    (/\ Called /\ HasDayList
     /\ \A i \in 1..Len(DayList) :
          IsHrRecord(DayList[i]) \/ DayList[i] \in ContextRecords)
    => /\ ~returned.raised
       /\ LET hrs == { i \in 1..Len(DayList) :
                         IsHrRecord(DayList[i]) /\ WithValue(DayList[i]) # <<>> }
              out == returned.value
          IN  IF hrs = {}
              THEN /\ ~HasKey(out, "heart_rate_avg")
                   /\ ~HasKey(out, "heart_rate_min")
                   /\ ~HasKey(out, "heart_rate_max")
              ELSE LET last == CHOOSE i \in hrs : \A j \in hrs : j <= i
                       fields == [k \in 1..Len(WithValue(DayList[last])) |->
                                    Item(WithValue(DayList[last])[k], "value")]
                       \* every field is a whole or a half: twice it is whole
                       twice(v) == (2 * Num(v)) \div Den(v)
                       total[k \in 0..Len(fields)] ==
                           IF k = 0 THEN 0 ELSE total[k - 1] + twice(fields[k])
                   IN  /\ HasKey(out, "heart_rate_avg")
                       /\ HasKey(out, "heart_rate_min")
                       /\ HasKey(out, "heart_rate_max")
                       /\ Item(out, "heart_rate_avg").t = "float"
                       /\ 2 * Len(fields) * Num(Item(out, "heart_rate_avg"))
                            = total[Len(fields)] * Den(Item(out, "heart_rate_avg"))
                       /\ \E k \in 1..Len(fields) :
                            Item(out, "heart_rate_min") = fields[k]
                       /\ \A k \in 1..Len(fields) :
                            ~Less(fields[k], Item(out, "heart_rate_min"))
                       /\ \E k \in 1..Len(fields) :
                            Item(out, "heart_rate_max") = fields[k]
                       /\ \A k \in 1..Len(fields) :
                            ~Less(Item(out, "heart_rate_max"), fields[k])

\* C9's case: values of 60, 70 and 80 give 70.0, 60 and 80.
C9_Witness ==
    /\ Called /\ HasDayList
    /\ DayList = <<Record("hr", Obj("values",
                     PyList(<<Reading(PyInt(60)),
                              PyDict(<< <<"value", PyInt(70)>>, <<"timestamp", PyInt(1)>> >>),
                              Reading(PyInt(80))>>)))>>
    /\ returned = Ok(PyDict(<< <<"heart_rate_avg", PyFloat(70, 1)>>,
                               <<"heart_rate_min", PyInt(60)>>,
                               <<"heart_rate_max", PyInt(80)>> >>))

\* A sleep record as the API documents it: `quick_metrics` is a list, and a
\* `value` field of an element, where there is one, is a number.
IsSleepRecord(metric) ==
    /\ IsRecordOf(metric, "sleep")
    /\ IsDict(Item(metric, "object"))
    /\ HasKey(Item(metric, "object"), "quick_metrics")
    /\ IsList(Item(Item(metric, "object"), "quick_metrics"))
    /\ \A i \in 1..Len(Item(Item(metric, "object"), "quick_metrics").items) :
         LET qm == Item(Item(metric, "object"), "quick_metrics").items[i]
         IN  (IsDict(qm) /\ HasKey(qm, "value")) => IsNumber(Item(qm, "value"))

\* The quick metrics of the day's sleep records, in the order of the list.
RECURSIVE SleepQuickMetrics(_)
SleepQuickMetrics(list) ==
    IF list = <<>> THEN <<>>
    ELSE (IF IsSleepRecord(Head(list))
          THEN Item(Item(Head(list), "object"), "quick_metrics").items
          ELSE <<>>) \o SleepQuickMetrics(Tail(list))

\* The quick metrics of the given type that carry a value.
OfType(qms, type) ==
    SelectSeq(qms, LAMBDA qm : /\ IsDict(qm) /\ HasKey(qm, "type") /\ HasKey(qm, "value")
                               /\ Item(qm, "type") = PyStr(type))

\* `key` is absent when no quick metric has the type; else it is the value
\* of the last one, divided by `divisor`.
WrittenFrom(out, key, qms, type, divisor) ==
    IF OfType(qms, type) = <<>> THEN ~HasKey(out, key)
    ELSE LET value == Item(OfType(qms, type)[Len(OfType(qms, type))], "value")
         IN  /\ HasKey(out, key)
             /\ IF divisor = 1 THEN Item(out, key) = value
                ELSE /\ Item(out, key).t = "float"
                     /\ Num(Item(out, key)) * divisor * Den(value)
                          = Num(value) * Den(Item(out, key))

\* C10: with sleep records of the documented shape nothing is raised, and
\* each quick metric is dispatched on its own type: sleep_duration is the
\* total_sleep value / 60, time_in_bed the time_in_bed value / 60 and
\* sleep_quality the sleep_index value, unchanged; a quick metric of another
\* type, or without a value, writes nothing and hides none of the others.
C10_SleepQuickMetrics ==
    (/\ Called /\ HasDayList
     /\ \A i \in 1..Len(DayList) :
          IsSleepRecord(DayList[i]) \/ DayList[i] \in ContextRecords)
    => /\ ~returned.raised
       /\ WrittenFrom(returned.value, "sleep_duration", SleepQuickMetrics(DayList),
                      "total_sleep", 60)
       /\ WrittenFrom(returned.value, "time_in_bed", SleepQuickMetrics(DayList),
                      "time_in_bed", 60)
       /\ WrittenFrom(returned.value, "sleep_quality", SleepQuickMetrics(DayList),
                      "sleep_index", 1)

\* C10's case: total_sleep of 27000 s gives 450.0 min, beside a quick metric
\* of a type the loop does not know.
C10_Witness ==
    /\ Called /\ HasDayList
    /\ DayList = <<Record("sleep", Obj("quick_metrics",
                     PyList(<<Quick("rem_sleep", PyInt(10)),
                              Quick("total_sleep", PyInt(27000))>>)))>>
    /\ returned = Ok(PyDict(<< <<"sleep_duration", PyFloat(450, 1)>> >>))


\* The body has no data.metrics, or its metrics have no entry for the date.
NoDataForDate ==
    /\ Got200
    /\ \/ ~(IsDict(raw) /\ HasKey(raw, "data")
            /\ IsDict(Item(raw, "data")) /\ HasKey(Item(raw, "data"), "metrics"))
       \/ /\ IsDict(raw) /\ HasKey(raw, "data")
          /\ IsDict(Item(raw, "data")) /\ HasKey(Item(raw, "data"), "metrics")
          /\ IsDict(Item(Item(raw, "data"), "metrics"))
          /\ ~HasKey(Item(Item(raw, "data"), "metrics"), args.today)

\* C2: "no data for the date" is a success with an empty mapping: on status
\* 404, on a body without data.metrics, and on metrics without an entry for
\* the date, the call returns {}.
C2_NoDataIsEmptyMapping ==
    (Called /\ ((args.response.kind = "http" /\ args.response.status = 404)
                \/ NoDataForDate))
    => returned = Ok(PyDict(<<>>))

\* The types the dispatch of lines 82-185 knows, and the fields of `object`
\* each of them reads.
KnownTypes ==
    { "hr", "night_rhr", "avg_sleep_hrv", "sleep", "steps", "active_minutes",
      "motion", "activity_index", "recovery_index", "metabolic_score",
      "body_temperature", "vo2_max" }

ExpectedFields(type) ==
    CASE type = "hr" -> {"values"}
      [] type = "night_rhr" -> {"avg", "values"}
      [] type = "sleep" -> {"quick_metrics"}
      [] type \in {"motion", "activity_index"} -> {"value", "quick_metrics"}
      [] OTHER -> {"value"}

\* An element of the day's list of unrecognized shape: no record at all, a
\* record without `type` or `object`, of a type the dispatch does not know,
\* or of a known type whose `object` is a mapping with none of the fields
\* that type reads.
Unrecognized(metric) ==
    \/ ~(IsDict(metric) /\ HasKey(metric, "type") /\ HasKey(metric, "object"))
    \/ Item(metric, "type") \notin {PyStr(type) : type \in KnownTypes}
    \/ /\ IsDict(Item(metric, "object"))
       /\ \A field \in ExpectedFields(Item(metric, "type").s) :
             ~HasKey(Item(metric, "object"), field)

Without(list, i) == SubSeq(list, 1, i - 1) \o SubSeq(list, i + 1, Len(list))

\* C12: an element of unrecognized shape in the day's list is passed over on
\* its own: the call returns what the extraction gives for the list without
\* that element.
C12_UnrecognizedRecordSkipped ==
    (Called /\ HasDayList)
    => \A i \in 1..Len(DayList) :
          Unrecognized(DayList[i])
          => returned = MetricsLoop(PyDict(<<>>), Without(DayList, i))

\* C12's case: an unrecognized element between other records, whose keys
\* the call returned.
C12_Witness ==
    /\ Called /\ HasDayList
    /\ Len(DayList) = 3 /\ Unrecognized(DayList[2])
    /\ ~returned.raised
    /\ HasKey(returned.value, "steps") /\ HasKey(returned.value, "sleep_quality")

\* The body's top level is not the documented one: it is no mapping, it has
\* no `data`, or its `data` or `metrics` is no mapping.
UnrecognizedTopLevel ==
    /\ Got200
    /\ \/ ~IsDict(raw)
       \/ ~HasKey(raw, "data")
       \/ ~IsDict(Item(raw, "data"))
       \/ /\ HasKey(Item(raw, "data"), "metrics")
          /\ ~IsDict(Item(Item(raw, "data"), "metrics"))

\* C13: on a body of unrecognized top-level shape the call returns the
\* empty mapping: it does not raise and does not return the body's own keys.
C13_UnrecognizedTopLevelIsEmpty ==
    (Called /\ UnrecognizedTopLevel) => returned = Ok(PyDict(<<>>))


----------------------------------------------------------------------------
(* sensor.py: _infer_device_class_and_unit, lines 46-83.                   *)

UpperCase == "ABCDEFGHIJKLMNOPQRSTUVWXYZ"
LowerCase == "abcdefghijklmnopqrstuvwxyz"

\* str.lower() on one character.
LowerChar(c) ==
    IF \E i \in 1..Len(UpperCase) : SubSeq(UpperCase, i, i) = c
    THEN LET i == CHOOSE j \in 1..Len(UpperCase) : SubSeq(UpperCase, j, j) = c
         IN  SubSeq(LowerCase, i, i)
    ELSE c

\* str.lower()
RECURSIVE Lower(_)
Lower(s) == IF s = "" THEN "" ELSE LowerChar(SubSeq(s, 1, 1)) \o Lower(SubSeq(s, 2, Len(s)))

\* A schema: (device class, unit, state class); "None" is Python's None.
Schema(device_class, unit, state_class) ==
    [device_class |-> device_class, unit |-> unit, state_class |-> state_class]

\* A slip: the heart-rate test placed before the duration test.
InferHeartRateFirst(key) ==
    LET key_lower == Lower(key)
    IN  IF Substring("temperature", key_lower) \/ Substring("temp", key_lower)
        THEN Schema("temperature", "°C", "measurement")
        ELSE IF Substring("heart_rate", key_lower) \/ Substring("hrv", key_lower)
                \/ Substring("pulse", key_lower)
        THEN IF Substring("hrv", key_lower)
             THEN Schema("None", "ms", "measurement")
             ELSE Schema("frequency", "bpm", "measurement")
        ELSE IF Substring("duration", key_lower) \/ Substring("time", key_lower)
                \/ Substring("sleep", key_lower)
        THEN IF Substring("sleep", key_lower)
             THEN Schema("duration", "min", "measurement")
             ELSE Schema("duration", "s", "measurement")
        ELSE IF Substring("step", key_lower)
        THEN Schema("None", "steps", "total_increasing")
        ELSE IF Substring("energy", key_lower) \/ Substring("calorie", key_lower)
        THEN Schema("energy", "kcal", "total_increasing")
        ELSE IF Substring("distance", key_lower)
        THEN Schema("distance", "m", "total_increasing")
        ELSE IF Substring("weight", key_lower)
        THEN Schema("weight", "kg", "measurement")
        ELSE Schema("None", "None", "measurement")

_infer_device_class_and_unit(key) ==
    LET key_lower == Lower(key)
    IN  IF Substring("temperature", key_lower) \/ Substring("temp", key_lower)
        THEN Schema("temperature", "°C", "measurement")
        ELSE IF Substring("duration", key_lower) \/ Substring("time", key_lower)
                \/ Substring("sleep", key_lower)
        THEN IF Substring("sleep", key_lower)
             THEN Schema("duration", "min", "measurement")
             ELSE Schema("duration", "s", "measurement")
        ELSE IF Substring("heart_rate", key_lower) \/ Substring("hrv", key_lower)
                \/ Substring("pulse", key_lower)
        THEN IF Substring("hrv", key_lower)
             THEN Schema("None", "ms", "measurement")
             ELSE Schema("frequency", "bpm", "measurement")
        ELSE IF Substring("step", key_lower)
        THEN Schema("None", "steps", "total_increasing")
        ELSE IF Substring("energy", key_lower) \/ Substring("calorie", key_lower)
        THEN Schema("energy", "kcal", "total_increasing")
        ELSE IF Substring("distance", key_lower)
        THEN Schema("distance", "m", "total_increasing")
        ELSE IF Substring("weight", key_lower)
        THEN Schema("weight", "kg", "measurement")
        ELSE Schema("None", "None", "measurement")

----------------------------------------------------------------------------
(* The inputs of the bounded check of the inferencer: names of up to       *)
(* MaxWords words joined by "_".                                           *)

MaxWords == 2

Words ==
    { "temperature", "Temp", "attempt", "duration", "time", "sleep", "Sleep",
      "heart_rate", "hrv", "HRV", "pulse", "step", "energy", "calorie",
      "distance", "weight", "total", "s" }

RECURSIVE JoinWords(_)
JoinWords(ws) ==
    IF Len(ws) = 1 THEN ws[1] ELSE ws[1] \o "_" \o JoinWords(Tail(ws))

Names == { JoinWords(ws) : ws \in SeqsUpTo(Words, MaxWords) \ {<<>>} } \cup {""}

InferInit ==
    /\ NoEntry
    /\ args \in { [key |-> k] : k \in Names }
    /\ returned = NotCalled

CallInfer ==
    /\ returned = NotCalled
    /\ returned' = Ok(_infer_device_class_and_unit(args.key))
    /\ UNCHANGED <<args, entry_vars>>

InferNext == CallInfer

InferSpec == InferInit /\ [][InferNext]_vars

\* The rules of the inferencer as a table, in priority order: the substrings
\* that select a rule, and the schema it gives.  The unit of the duration
\* rule is "min" for a name containing "sleep", and the heart-rate rule
\* gives (no class, "ms") for a name containing "hrv".
InferRules ==
    << [any |-> {"temperature", "temp"}, schema |-> Schema("temperature", "°C", "measurement"),
        when |-> "", then |-> Schema("temperature", "°C", "measurement")],
       [any |-> {"duration", "time", "sleep"}, schema |-> Schema("duration", "s", "measurement"),
        when |-> "sleep", then |-> Schema("duration", "min", "measurement")],
       [any |-> {"heart_rate", "hrv", "pulse"}, schema |-> Schema("frequency", "bpm", "measurement"),
        when |-> "hrv", then |-> Schema("None", "ms", "measurement")],
       [any |-> {"step"}, schema |-> Schema("None", "steps", "total_increasing"),
        when |-> "", then |-> Schema("None", "steps", "total_increasing")],
       [any |-> {"energy", "calorie"}, schema |-> Schema("energy", "kcal", "total_increasing"),
        when |-> "", then |-> Schema("energy", "kcal", "total_increasing")],
       [any |-> {"distance"}, schema |-> Schema("distance", "m", "total_increasing"),
        when |-> "", then |-> Schema("distance", "m", "total_increasing")],
       [any |-> {"weight"}, schema |-> Schema("weight", "kg", "measurement"),
        when |-> "", then |-> Schema("weight", "kg", "measurement")] >>

Matches(rule, name) == \E p \in rule.any : Substring(p, Lower(name))

\* C8: for every name the inferencer gives the schema of the first rule of
\* the table that matches the lower-cased name, and (no class, no unit,
\* instantaneous) when none matches.
C8_InferFirstMatchWins ==
    (Called /\ "key" \in DOMAIN args)
    => LET hits == { i \in 1..Len(InferRules) : Matches(InferRules[i], args.key) }
       IN  IF hits = {}
           THEN returned.value = Schema("None", "None", "measurement")
           ELSE LET first == InferRules[CHOOSE i \in hits : \A j \in hits : i <= j]
                IN  returned.value =
                      IF first.when # "" /\ Substring(first.when, Lower(args.key))
                      THEN first.then ELSE first.schema

\* C8's case: "sleep_heart_rate" matches the duration rule and the
\* heart-rate rule, and the duration rule, being first, decides.
C8_Witness ==
    /\ Called /\ "key" \in DOMAIN args
    /\ args.key = "sleep_heart_rate"
    /\ returned.value = Schema("duration", "min", "measurement")


----------------------------------------------------------------------------
(* sensor.py: SENSOR_DESCRIPTIONS (lines 88-211) and                       *)
(* _create_sensors_from_data (lines 214-344).                              *)

\* The static table, in its order.  value_fn is d.get(key) for every row.
Description(key, unit, device_class, state_class) ==
    [key |-> key, unit |-> unit, device_class |-> device_class,
     state_class |-> state_class, value_fn |-> [kind |-> "get", k |-> key]]

SENSOR_DESCRIPTIONS ==
    << Description("heart_rate_resting", "bpm", "frequency", "measurement"),
       Description("heart_rate_avg", "bpm", "frequency", "measurement"),
       Description("heart_rate_min", "bpm", "frequency", "measurement"),
       Description("heart_rate_max", "bpm", "frequency", "measurement"),
       Description("hrv", "ms", "None", "measurement"),
       Description("sleep_duration", "min", "duration", "measurement"),
       Description("time_in_bed", "min", "duration", "measurement"),
       Description("sleep_quality", "None", "None", "measurement"),
       Description("steps", "steps", "None", "total_increasing"),
       Description("activity_index", "None", "None", "measurement"),
       Description("recovery_index", "None", "None", "measurement"),
       Description("metabolic_score", "None", "None", "measurement"),
       Description("body_temperature", "°C", "temperature", "measurement"),
       Description("vo2_max", "ml/kg/min", "None", "measurement") >>

\* {desc.key for desc in SENSOR_DESCRIPTIONS}  (line 228)
predefined_keys == { SENSOR_DESCRIPTIONS[i].key : i \in 1..Len(SENSOR_DESCRIPTIONS) }

\* s.replace(old, "", 1) for a one-character old: its first occurrence removed.
RemoveFirst(s, old) ==
    IF Substring(old, s)
    THEN LET i == CHOOSE j \in 1..Len(s) :
                    /\ SubSeq(s, j, j) = old
                    /\ \A h \in 1..(j - 1) : SubSeq(s, h, h) # old
         IN  SubSeq(s, 1, i - 1) \o SubSeq(s, i + 1, Len(s))
    ELSE s

Digits == "0123456789"

\* str.isdigit(): not empty, and decimal digits only.
IsDigit(s) ==
    /\ s # ""
    /\ \A i \in 1..Len(s) : Substring(SubSeq(s, i, i), Digits)

\* value.replace(".", "", 1).replace("-", "", 1).isdigit()  (line 256)
LooksNumeric(value) == IsDigit(RemoveFirst(RemoveFirst(value, "."), "-"))

\* Whether float(value) accepts a string that LooksNumeric: its "-", if it
\* has one, must come first.
FloatAccepts(value) == ~Substring("-", value) \/ SubSeq(value, 1, 1) = "-"

\* The sensor built for value under key (prefix is the path above it).
Sensor(key, schema, value_fn) ==
    [key |-> key, unit |-> schema.unit, device_class |-> schema.device_class,
     state_class |-> schema.state_class, value_fn |-> value_fn]

NoSchema == Schema("None", "None", "None")

\* Lines 224-342, one key of data.items(); `entities` is the list so far, and
\* Nested(value, full_key, entities) the recursive call of line 305.
RECURSIVE _create_sensors_from_data(_, _, _)
CreateSensorsFor(key, value, prefix, entities) ==
    LET full_key == IF prefix # "" THEN prefix \o "_" \o key ELSE key
    IN  IF full_key \in predefined_keys \/ key \in predefined_keys THEN entities
        ELSE IF IsNumber(value)
        THEN Append(entities,
                    Sensor(full_key, _infer_device_class_and_unit(full_key),
                           [kind |-> "scalar", k |-> full_key, p |-> prefix,
                            orig_k |-> key]))
        ELSE IF IsStr(value) /\ LooksNumeric(value.s)
        THEN IF FloatAccepts(value.s)
             THEN Append(entities,
                         Sensor(full_key, _infer_device_class_and_unit(full_key),
                                [kind |-> "float", k |-> full_key]))
             ELSE Append(entities,
                         Sensor(full_key, NoSchema, [kind |-> "get", k |-> full_key]))
        ELSE IF IsStr(value)
        THEN Append(entities,
                    Sensor(full_key, NoSchema, [kind |-> "get", k |-> full_key]))
        ELSE IF IsDict(value)
        THEN _create_sensors_from_data(value, full_key, entities)
        ELSE IF IsList(value) /\ value.items # <<>> /\ IsNumber(value.items[1])
        THEN entities \o
             << Sensor(full_key \o "_count", Schema("None", "None", "measurement"),
                       [kind |-> "count", k |-> key, p |-> prefix]),
                Sensor(full_key \o "_sum", Schema("None", "None", "measurement"),
                       [kind |-> "sum", k |-> key, p |-> prefix]) >>
        ELSE entities

\* for key, value in data.items()  (line 224)
RECURSIVE CreateSensorsLoop(_, _, _)
CreateSensorsLoop(pairs, prefix, entities) ==
    IF pairs = <<>> THEN entities
    ELSE CreateSensorsLoop(Tail(pairs), prefix,
                           CreateSensorsFor(pairs[1][1], pairs[1][2], prefix, entities))

_create_sensors_from_data(mapping, prefix, entities) ==
    CreateSensorsLoop(mapping.pairs, prefix, entities)

----------------------------------------------------------------------------
(* sensor.py: the accessors (value_fn) of the descriptions, applied to a   *)
(* mapping d.  An accessor yields Ok(value) or Raise(exception name).      *)

\* The number a string of decimal digits stands for ("" stands for 0).
RECURSIVE DecimalValue(_)
DecimalValue(s) ==
    IF s = "" THEN 0
    ELSE 10 * DecimalValue(SubSeq(s, 1, Len(s) - 1))
         + (CHOOSE n \in 0..9 : SubSeq(Digits, n + 1, n + 1) = SubSeq(s, Len(s), Len(s)))

RECURSIVE PowerOfTen(_)
PowerOfTen(n) == IF n = 0 THEN 1 ELSE 10 * PowerOfTen(n - 1)

\* float(value) for a str value that LooksNumeric: ValueError unless its
\* "-" comes first.
Float(value) ==
    IF ~FloatAccepts(value) THEN Raise("ValueError")
    ELSE LET unsigned == RemoveFirst(value, "-")
             digits == RemoveFirst(unsigned, ".")
             dot == IF Substring(".", unsigned)
                    THEN CHOOSE j \in 1..Len(unsigned) : SubSeq(unsigned, j, j) = "."
                    ELSE Len(unsigned)
             sign == IF Substring("-", value) THEN -1 ELSE 1
         IN  Ok(PyFloat(sign * DecimalValue(digits), PowerOfTen(Len(unsigned) - dot)))

\* len(v)
PyLen(v) ==
    CASE v.t = "list" -> Ok(PyInt(Len(v.items)))
      [] v.t = "dict" -> Ok(PyInt(Len(v.pairs)))
      [] v.t = "str"  -> Ok(PyInt(Len(v.s)))
      [] OTHER        -> Raise("TypeError")

\* sum(v) for a list v: TypeError on an element that is not a number.
PySum(v) ==
    IF \E i \in 1..Len(v.items) : ~IsNumber(v.items[i]) THEN Raise("TypeError")
    ELSE Ok(SumValues(v.items))

\* The lambdas of lines 97-209 and 286, 299 ("get"), 248-252 ("scalar"),
\* 271-274 ("float"), 320-324 ("count") and 335-339 ("sum").
ValueFn(value_fn, d) ==
    CASE value_fn.kind = "get" -> Ok(DictGet(d, value_fn.k, None))
      [] value_fn.kind = "scalar" ->
           IF value_fn.p = "" THEN Ok(DictGet(d, value_fn.k, None))
           ELSE IF IsDict(DictGet(d, value_fn.p, None))
           THEN Ok(DictGet(Item(d, value_fn.p), value_fn.orig_k, None))
           ELSE Ok(None)
      [] value_fn.kind = "float" ->
           LET v == DictGet(d, value_fn.k, None)
           IN  IF IsStr(v) /\ LooksNumeric(v.s) THEN Float(v.s) ELSE Ok(v)
      [] value_fn.kind = "count" ->
           IF value_fn.p = "" THEN PyLen(DictGet(d, value_fn.k, PyList(<<>>)))
           ELSE IF IsDict(DictGet(d, value_fn.p, None))
           THEN PyLen(DictGet(Item(d, value_fn.p), value_fn.k, PyList(<<>>)))
           ELSE Ok(PyInt(0))
      [] value_fn.kind = "sum" ->
           IF value_fn.p = "" /\ IsList(DictGet(d, value_fn.k, None))
           THEN PySum(Item(d, value_fn.k))
           ELSE IF /\ IsDict(DictGet(d, value_fn.p, None))
                   /\ IsList(DictGet(Item(d, value_fn.p), value_fn.k, None))
           THEN PySum(Item(Item(d, value_fn.p), value_fn.k))
           ELSE Ok(None)

----------------------------------------------------------------------------
(* The inputs of the bounded check of _create_sensors_from_data: mappings  *)
(* of up to MaxKeys keys whose values are scalars, lists and mappings      *)
(* nested one and two levels deep.                                         *)

MaxKeys == 2

Numbers123 == PyList(<<PyInt(1), PyInt(2), PyInt(3)>>)

LeafValues ==
    { PyInt(1), PyFloat(5, 2), PyStr("abc"), PyStr("12.5"), PyStr("5-"), None,
      Numbers123, PyList(<<PyInt(1), PyStr("x")>>) }

InnerDicts ==
    { Obj("b", PyInt(2)), Obj("steps", PyInt(2)), Obj("b", PyStr("7")),
      Obj("b", Numbers123), PyDict(<< <<"b", PyInt(2)>>, <<"c", PyInt(3)>> >>) }

MiddleDicts ==
    { Obj("b", v) : v \in { Obj("b", PyInt(2)), Obj("steps", PyInt(2)),
                            Obj("b", PyStr("7")), Obj("b", Numbers123) } }

DataKeys == { "a", "a_b", "steps" }

DataSets ==
    { PyDict(q) : q \in { q \in SeqsUpTo(DataKeys \X (LeafValues \cup InnerDicts \cup MiddleDicts),
                                         MaxKeys) :
                            \A i, j \in 1..Len(q) : i # j => q[i][1] # q[j][1] } }

ProjInit ==
    /\ NoEntry
    /\ args \in { [data |-> d] : d \in DataSets }
    /\ returned = NotCalled

CallCreateSensors ==
    /\ returned = NotCalled
    /\ returned' = Ok(_create_sensors_from_data(args.data, "", <<>>))
    /\ UNCHANGED <<args, entry_vars>>

ProjNext == CallCreateSensors

ProjSpec == ProjInit /\ [][ProjNext]_vars

\* The full keys of the scalar (number or string) values of a mapping, at
\* any depth: the keys above a value joined by "_".
RECURSIVE ScalarKeys(_, _)
ScalarKeys(d, prefix) ==
    UNION { LET full_key == IF prefix # "" THEN prefix \o "_" \o d.pairs[i][1]
                            ELSE d.pairs[i][1]
                value == d.pairs[i][2]
            IN  IF IsNumber(value) \/ IsStr(value) THEN {full_key}
                ELSE IF IsDict(value) THEN ScalarKeys(value, full_key)
                ELSE {}
            : i \in 1..Len(d.pairs) }

\* C4: the sensors created from a mapping, flat or nested, have distinct
\* keys, and a scalar's full key gets no sensor only if it is string-equal
\* to a key of the static table.
C4_DistinctKeysExactMatch ==
    (Called /\ "data" \in DOMAIN args)
    => /\ \A i, j \in 1..Len(returned.value) :
            i # j => returned.value[i].key # returned.value[j].key
       /\ \A full_key \in ScalarKeys(args.data, "") \ predefined_keys :
            \E i \in 1..Len(returned.value) : returned.value[i].key = full_key


\* The values that _create_sensors_from_data comes to and that are to have
\* a sensor: every number, string and non-empty list of the mapping, at any
\* depth, that the static table's keys do not withhold (the test of line
\* 229), with the key the sensor is to have.  A list stands for two sensors.
RECURSIVE Leaves(_, _)
Leaves(d, prefix) ==
    UNION { LET key == d.pairs[i][1]
                value == d.pairs[i][2]
                full_key == IF prefix # "" THEN prefix \o "_" \o key ELSE key
            IN  IF full_key \in predefined_keys \/ key \in predefined_keys THEN {}
                ELSE IF IsNumber(value) \/ IsStr(value)
                THEN {[key |-> full_key, role |-> "scalar", from |-> value]}
                ELSE IF IsDict(value) THEN Leaves(value, full_key)
                ELSE IF IsList(value) /\ value.items # <<>>
                THEN {[key |-> full_key \o "_count", role |-> "count", from |-> value],
                      [key |-> full_key \o "_sum", role |-> "sum", from |-> value]}
                ELSE {}
            : i \in 1..Len(d.pairs) }

AllNumeric(list) == \A i \in 1..Len(list.items) : IsNumber(list.items[i])

\* What the accessors of the sensors with this key give on the mapping the
\* sensors were created from.
Readings(key) ==
    { ValueFn(returned.value[i].value_fn, args.data) :
        i \in {j \in 1..Len(returned.value) : returned.value[j].key = key} }

\* C11: a list of numbers under a key the static table does not withhold,
\* at any depth, has a sensor <key>_count that reads the list's length and a
\* sensor <key>_sum that reads the sum of its elements; a list with an
\* element that is not a number has no _sum sensor.
C11_NumericArrayCountAndSum ==
    (Called /\ "data" \in DOMAIN args)
    => \A leaf \in Leaves(args.data, "") :
          /\ (leaf.role = "count" /\ AllNumeric(leaf.from))
                => Ok(PyInt(Len(leaf.from.items))) \in Readings(leaf.key)
          /\ (leaf.role = "sum" /\ AllNumeric(leaf.from))
                => Ok(SumValues(leaf.from.items)) \in Readings(leaf.key)
          /\ (leaf.role = "sum" /\ ~AllNumeric(leaf.from))
                => ~\E i \in 1..Len(returned.value) :
                        /\ returned.value[i].key = leaf.key
                        /\ returned.value[i].value_fn.kind = "sum"

\* Whether a reading is the value the leaf's sensor was created from: the
\* scalar (a numeric string may read as its float), the length, the sum.
Agrees(reading, leaf) ==
    CASE leaf.role = "scalar" ->
           \/ reading = Ok(leaf.from)
           \/ IsStr(leaf.from) /\ LooksNumeric(leaf.from.s) /\ reading = Float(leaf.from.s)
      [] leaf.role = "count" -> reading = Ok(PyInt(Len(leaf.from.items)))
      [] leaf.role = "sum" ->
           AllNumeric(leaf.from) => reading = Ok(SumValues(leaf.from.items))

\* C16: every sensor created from a mapping, at any depth, reads on that
\* mapping the value it was created from.
C16_AccessorReadsItsValue ==
    (Called /\ "data" \in DOMAIN args)
    => \A i \in 1..Len(returned.value) :
          \E leaf \in Leaves(args.data, "") :
              /\ leaf.key = returned.value[i].key
              /\ Agrees(ValueFn(returned.value[i].value_fn, args.data), leaf)


----------------------------------------------------------------------------
(* The config entry's lifecycle: __init__.py (async_setup_entry,           *)
(* async_unload_entry), sensor.py (async_setup_entry, native_value) and    *)
(* the coordinator's refresh cycle.  The network call is the one           *)
(* suspension point of a cycle: a cycle is the step that sends the request *)
(* and the step that handles the response.  What the host platform does    *)
(* around the integration's code is modelled as its update coordinator     *)
(* documents it: `data` is replaced by what _async_update_data returns and *)
(* kept when it raises; a failed first refresh raises ConfigEntryNotReady; *)
(* an exception leaving a platform's setup is logged and leaves the entry  *)
(* loaded without that platform's entities.                                *)

MaxSessions == 2    \* sessions that may be open at once (bounds the setups)

\* A slip: a description kept when its key is present, whatever its value.
StaticPassKeyPresent(d) ==
    SelectSeq(SENSOR_DESCRIPTIONS, LAMBDA description : HasKey(d, description.key))

\* sensor.py lines 369-380: the static descriptions whose accessor gives a
\* value that is not None, in the table's order.
StaticPass(d) ==
    SelectSeq(SENSOR_DESCRIPTIONS,
              LAMBDA description :
                  LET value == ValueFn(description.value_fn, d)
                  IN  ~value.raised /\ value.value # None)

\* UltrahumanSensor.native_value (lines 406-411) of the i-th entity.
native_value(i) == ValueFn(added_entities[i].value_fn, data)

\* The day lists a response may carry for the requested date.
EntryDayLists ==
    { <<>>,
      <<Record("steps", Reading(PyInt(4000)))>>,
      <<Record("steps", Reading(None))>>,
      <<Record("hr", Obj("values", PyList(<<Reading(PyInt(60)), Reading(PyInt(80))>>)))>>,
      <<Record("motion", PyDict(<< <<"value", PyInt(7)>>,
                                   <<"quick_metrics",
                                     PyList(<<Quick("calories", PyInt(300))>>)>> >>))>> }

\* What may come back for a request with `date` = date.
EntryResponses(date) ==
    { Http(200, Ok(Payload(Obj(date, PyList(l))))) : l \in EntryDayLists }
    \cup { Http(200, Ok(Obj("data", None))) }
    \cup { Http(s, Ok(PyDict(<<>>))) : s \in {401, 403, 404, 429, 500} }
    \cup { Failure("timeout"), Failure("client_error") }

EntryInit ==
    /\ entry_state = "not_loaded" /\ pc = "idle"
    /\ session = "None" /\ open_sessions = 0
    /\ data = None /\ last_update_success = TRUE
    /\ now \in Days /\ request = ""
    /\ first_data = None /\ setup_data = None /\ added_entities = <<>>
    /\ args = [call |-> "none"] /\ returned = NotCalled

\* __init__.async_setup_entry lines 17-23: a new coordinator (coordinator.py
\* 20-29), and its first refresh sends its request (31-47): the session is
\* created, `today` is taken from the clock.
SetupEntry ==
    /\ entry_state = "not_loaded" /\ pc = "idle"
    /\ open_sessions < MaxSessions
    /\ entry_state' = "setup_in_progress"
    /\ pc' = "first_refresh"
    /\ session' = "open"
    /\ open_sessions' = open_sessions + 1
    /\ data' = None /\ last_update_success' = TRUE
    /\ request' = Strftime(now)
    /\ first_data' = None /\ setup_data' = None /\ added_entities' = <<>>
    /\ UNCHANGED <<now, call_vars>>

\* The wall clock passes midnight.
Midnight ==
    /\ now < MaxDay
    /\ now' = now + 1
    /\ UNCHANGED <<entry_state, pc, session, open_sessions, data, last_update_success,
                   request, first_data, setup_data, added_entities, call_vars>>

\* The response r to the outstanding request arrives: coordinator.py 48-205
\* runs, with the clock as it is now.  Then, by the refresh it belongs to:
\*  first_refresh (__init__.py 23-30): on failure async_setup_entry is left
\*    at line 23 and the coordinator is dropped.  No line of the integration
\*    closes its session on this path: async_shutdown (coordinator.py
\*    207-211) runs only if the host platform calls it for an entry whose
\*    setup failed, which depends on the host's version, so both outcomes
\*    are possible.  On success the sensor platform is set up, whose
\*    async_setup_entry (sensor.py 359) refreshes again: the next request
\*    goes out.
\*  platform_refresh (sensor.py 359-385): on failure async_setup_entry is
\*    left at line 359 and no entity is added; on success the static pass
\*    runs on the new mapping.
\*  timer_refresh: the periodic update.
Respond(r) ==
    /\ pc # "idle"
    /\ r \in EntryResponses(request)
    /\ LET result == _async_update_data(r, Strftime(now))
           new_data == IF result.raised THEN data ELSE result.value
       IN  /\ data' = new_data
           /\ last_update_success' = ~result.raised
           /\ CASE pc = "first_refresh" ->
                     IF result.raised
                     THEN /\ entry_state' = "not_loaded" /\ pc' = "idle"
                          /\ \E host_calls_shutdown \in BOOLEAN :
                                IF host_calls_shutdown
                                THEN /\ session' = "None"
                                     /\ open_sessions' = open_sessions - 1
                                ELSE UNCHANGED <<session, open_sessions>>
                          /\ UNCHANGED <<request, first_data, setup_data, added_entities>>
                     ELSE /\ pc' = "platform_refresh"
                          /\ request' = Strftime(now)
                          /\ first_data' = new_data
                          /\ UNCHANGED <<entry_state, setup_data, added_entities,
                                         session, open_sessions>>
                [] pc = "platform_refresh" ->
                     /\ entry_state' = "loaded" /\ pc' = "idle"
                     /\ IF result.raised
                        THEN UNCHANGED <<setup_data, added_entities>>
                        ELSE /\ setup_data' = new_data
                             /\ added_entities' = StaticPass(new_data)
                     /\ UNCHANGED <<request, first_data, session, open_sessions>>
                [] pc = "timer_refresh" ->
                     /\ pc' = "idle"
                     /\ UNCHANGED <<entry_state, request, first_data, setup_data,
                                    added_entities, session, open_sessions>>
    /\ UNCHANGED <<now, call_vars>>

\* The update interval has passed: the next cycle sends its request
\* (coordinator.py 31-47; the session exists and is reused).
TimerTick ==
    /\ entry_state \in {"loaded", "failed_unload"} /\ pc = "idle"
    /\ pc' = "timer_refresh"
    /\ request' = Strftime(now)
    /\ UNCHANGED <<entry_state, session, open_sessions, data, last_update_success,
                   now, first_data, setup_data, added_entities, call_vars>>

\* __init__.async_unload_entry lines 33-42 with the platforms' answer
\* unload_ok; async_shutdown (coordinator.py 207-211) closes the session, and
\* with it an outstanding request.
UnloadEntry(unload_ok) ==
    /\ entry_state = "loaded"
    /\ IF unload_ok
       THEN /\ entry_state' = "not_loaded" /\ pc' = "idle"
            /\ session' = "None"
            /\ open_sessions' = IF session = "open" THEN open_sessions - 1 ELSE open_sessions
            /\ added_entities' = <<>>
       ELSE /\ entry_state' = "failed_unload"
            /\ UNCHANGED <<pc, session, open_sessions, added_entities>>
    /\ UNCHANGED <<data, last_update_success, now, request, first_data, setup_data,
                   call_vars>>

Next ==
    \/ SetupEntry
    \/ Midnight
    \/ \E r \in EntryResponses(request) : Respond(r)
    \/ TimerTick
    \/ \E unload_ok \in BOOLEAN : UnloadEntry(unload_ok)

Spec == EntryInit /\ [][Next]_vars


----------------------------------------------------------------------------
(* Properties of the config entry's lifecycle, checked under Spec.         *)

Loaded == entry_state \in {"loaded", "failed_unload"}

EntityKeys == {added_entities[i].key : i \in 1..Len(added_entities)}

EntitiesFor(key) == {i \in 1..Len(added_entities) : added_entities[i].key = key}

\* The failures the cycle recognises: 401, 403, 5xx, timeout, transport.
FailedCycle(r) ==
    \/ r.kind \in {"timeout", "client_error"}
    \/ r.kind = "http" /\ (r.status \in {401, 403} \/ r.status >= 500)

\* C3: a step that handles a failed response (status 401, 403, >= 500, a
\* timeout or a transport error) leaves the mapping as it was, marks the
\* update as failed and sends no new request: the coordinator is idle until
\* the next timer tick (or the next setup).  So the mapping is always that
\* of the most recent successful cycle.
C3_FailedCycleKeepsMapping ==
    [][(\E r \in EntryResponses(request) : FailedCycle(r) /\ Respond(r)) =>
           (data' = data /\ ~last_update_success' /\ pc' = "idle")]_vars

\* C3's case: a loaded entry whose last cycle failed and which still shows
\* the non-empty mapping of an earlier cycle.
C3_Witness ==
    /\ Loaded /\ pc = "idle" /\ ~last_update_success
    /\ IsDict(data) /\ data.pairs # <<>>

\* C5: once the entities are set up from a mapping, every key of that
\* mapping with a value is exposed by exactly one entity, the keys outside
\* the static table included.
C5_EveryKeyHasOneEntity ==
    (Loaded /\ setup_data # None) =>
        \A i \in 1..Len(setup_data.pairs) :
            setup_data.pairs[i][2] # None =>
                Cardinality(EntitiesFor(setup_data.pairs[i][1])) = 1

\* The place of a key in the static table (0 if it is not there).
TableIndex(key) ==
    IF \E i \in 1..Len(SENSOR_DESCRIPTIONS) : SENSOR_DESCRIPTIONS[i].key = key
    THEN CHOOSE i \in 1..Len(SENSOR_DESCRIPTIONS) : SENSOR_DESCRIPTIONS[i].key = key
    ELSE 0

\* C6: once the entities are set up from a mapping, a static description is
\* among them if and only if its accessor gives a value that is not None on
\* that mapping, and the static descriptions among the entities stand in the
\* order of the table.
C6_StaticIffValue ==
    (Loaded /\ setup_data # None) =>
        /\ \A i \in 1..Len(SENSOR_DESCRIPTIONS) :
              LET description == SENSOR_DESCRIPTIONS[i]
              IN  (description \in {added_entities[j] : j \in 1..Len(added_entities)})
                  <=> (ValueFn(description.value_fn, setup_data) # Ok(None))
        /\ \A i, j \in 1..Len(added_entities) :
              (i < j /\ TableIndex(added_entities[i].key) > 0
                     /\ TableIndex(added_entities[j].key) > 0)
              => TableIndex(added_entities[i].key) < TableIndex(added_entities[j].key)

\* C6's case: set up from a mapping that holds a static key with the value
\* None, which has no entity, or from one giving several static entities.
C6_Witness ==
    /\ Loaded /\ setup_data # None
    /\ \/ HasKey(setup_data, "steps") /\ Item(setup_data, "steps") = None
             /\ "steps" \notin EntityKeys
       \/ Len(added_entities) >= 2

\* C7: while the entry is loaded, the entities are those of the mapping of
\* the load's first successful refresh (a static description has an entity
\* exactly if that mapping gives it a value), whatever the later refreshes
\* bring; an entity whose key is not in the current mapping reads None.
C7_EntitiesOfFirstRefresh ==
    Loaded =>
        /\ \A i \in 1..Len(SENSOR_DESCRIPTIONS) :
              LET key == SENSOR_DESCRIPTIONS[i].key
              IN  (key \in EntityKeys) <=> (DictGet(first_data, key, None) # None)
        /\ \A i \in 1..Len(added_entities) :
              ~HasKey(data, added_entities[i].key) => native_value(i) = Ok(None)


\* The keys a record of the day's list can give the mapping, by its type
\* (coordinator.py lines 82-185).
Writes(metric) ==
    IF ~(IsDict(metric) /\ HasKey(metric, "type") /\ IsStr(Item(metric, "type")))
    THEN {}
    ELSE LET type == Item(metric, "type").s
         IN  CASE type = "hr" -> {"heart_rate_avg", "heart_rate_min", "heart_rate_max"}
               [] type = "night_rhr" -> {"heart_rate_resting"}
               [] type = "avg_sleep_hrv" -> {"hrv"}
               [] type = "sleep" -> {"sleep_duration", "sleep_quality", "time_in_bed"}
               [] type = "active_minutes" -> {"activity_minutes", "activity_hours"}
               [] type = "motion" -> {"movement_index", "total_calories"}
               [] type = "activity_index" ->
                    {"activity_index", "total_calories", "activity_minutes",
                     "activity_hours"}
               [] OTHER -> {type}

\* The keys that the records of a response's payload, under any date, can
\* give the mapping.
DerivedKeys(r) ==
    IF ~(r.kind = "http" /\ r.status = 200 /\ ~r.body.raised) THEN {}
    ELSE LET body == r.body.value
             metrics == Item(Item(body, "data"), "metrics")
         IN  IF ~(/\ IsDict(body) /\ HasKey(body, "data")
                  /\ IsDict(Item(body, "data")) /\ HasKey(Item(body, "data"), "metrics")
                  /\ IsDict(Item(Item(body, "data"), "metrics")))
             THEN {}
             ELSE UNION { IF IsList(metrics.pairs[i][2])
                          THEN UNION { Writes(metrics.pairs[i][2].items[j]) :
                                         j \in 1..Len(metrics.pairs[i][2].items) }
                          ELSE {}
                          : i \in 1..Len(metrics.pairs) }

\* C14: a step that handles a response with success leaves a mapping whose
\* every key comes from a record of that response's payload: nothing of the
\* mapping of an earlier cycle stays.
C14_MappingIsFresh ==
    [][\A r \in EntryResponses(request) :
         (last_update_success' /\ Respond(r))
         => \A i \in 1..Len(data'.pairs) : data'.pairs[i][1] \in DerivedKeys(r)]_vars

\* C14's case: a successful cycle after the load's first one gave a mapping
\* without a metric the first mapping had, and with others.
C14_Witness ==
    /\ Loaded /\ pc = "idle" /\ last_update_success
    /\ HasKey(first_data, "steps")
    /\ ~HasKey(data, "steps") /\ data.pairs # <<>>


\* C17: a step that handles a response reads the entry of the date the
\* request was sent with: the mapping and the success of the cycle are those
\* of the extraction under the requested date, whatever the clock shows when
\* the response arrives.
C17_LookupDateIsRequestDate ==
    [][\A r \in EntryResponses(request) :
         Respond(r)
         => LET result == _async_update_data(r, request)
            IN  /\ last_update_success' = ~result.raised
                /\ ~result.raised => data' = result.value]_vars

\* C18: whenever the config entry is not loaded, no session that one of its
\* coordinators created is open; and a coordinator with a session has one.
C18_NoSessionLeftOpen ==
    /\ entry_state = "not_loaded" => open_sessions = 0
    /\ session = "open" => open_sessions >= 1

----------------------------------------------------------------------------
(* config_flow.py: validate_api_token (lines 26-54) and                    *)
(* ConfigFlow.async_step_user (lines 62-87), as functions of the submitted *)
(* input and of the response to the validation request.                    *)

\* Lines 36-48, the body of the try statement.
ValidateTryBody(response) ==
    CASE response.kind = "timeout" -> Raise("TimeoutError")
      [] response.kind = "client_error" -> Raise("ClientError")
      [] OTHER ->
           IF response.status = 200
           THEN IF response.body.raised THEN response.body
                ELSE Ok([title |-> "Ultrahuman", data |-> response.body.value])
           ELSE IF response.status = 401 THEN Raise("InvalidAuth")
           ELSE Raise("CannotConnect")

\* The exceptions that inherit from aiohttp.ClientError.
ClientErrors == {"ClientError", "ClientResponseError", "ContentTypeError"}

\* Lines 49-54.  The try statement holds the raise statements of lines 46
\* and 48 too: InvalidAuth and CannotConnect are no ClientError and meet
\* `except Exception`.
ValidateExceptClauses(r) ==
    IF ~r.raised THEN r
    ELSE IF r.exc \in ClientErrors THEN Raise("CannotConnect")
    ELSE Raise("CannotConnect")

validate_api_token(response) == ValidateExceptClauses(ValidateTryBody(response))

ShowForm(errors) == [type |-> "form", step_id |-> "user", errors |-> errors]
CreateEntry(title, user_input) ==
    [type |-> "create_entry", title |-> title, data |-> user_input]

\* Lines 62-87; errors is the value of errors["base"], "" for no error.
async_step_user(user_input, response) ==
    IF user_input = None THEN ShowForm("")
    ELSE LET info == validate_api_token(response)
         IN  IF ~info.raised THEN CreateEntry(info.value.title, user_input)
             ELSE IF info.exc = "CannotConnect" THEN ShowForm("cannot_connect")
             ELSE IF info.exc = "InvalidAuth" THEN ShowForm("invalid_auth")
             ELSE ShowForm("unknown")

\* The inputs of the check of async_step_user.
UserInputs == {None} \cup {Obj("api_token", PyStr(t)) : t \in {"", "token-a", "token-b"}}

FlowResponses ==
    { Http(s, b) : s \in Statuses,
                   b \in {Ok(Payload(Obj(Strftime(1), SomeDay))), Ok(PyDict(<<>>)),
                          Raise("ContentTypeError")} }
    \cup { Failure("timeout"), Failure("client_error") }

FlowInit ==
    /\ NoEntry
    /\ args \in { [user_input |-> u, response |-> r] : u \in UserInputs, r \in FlowResponses }
    /\ returned = NotCalled

CallStepUser ==
    /\ returned = NotCalled
    /\ returned' = Ok(async_step_user(args.user_input, args.response))
    /\ UNCHANGED <<args, entry_vars>>

FlowNext == CallStepUser

FlowSpec == FlowInit /\ [][FlowNext]_vars

Submitted == Called /\ args.user_input # None

\* C15: the outcome of a submitted token follows the response: status 200
\* (with a body that is JSON) creates the entry, status 401 shows the form
\* again with invalid_auth, any other status and a transport error show it
\* with cannot_connect.
C15_FlowOutcomeFollowsResponse ==
    Submitted =>
        IF args.response.kind = "http" /\ args.response.status = 200
        THEN ~args.response.body.raised
             => returned.value = CreateEntry("Ultrahuman", args.user_input)
        ELSE IF args.response.kind = "http" /\ args.response.status = 401
        THEN returned.value = ShowForm("invalid_auth")
        ELSE returned.value = ShowForm("cannot_connect")


====
